---- MODULE Spec2Model ----
(***************************************************************************)
(* Model of the Solana wallet analyzer (src/may13ien.py): the retrying     *)
(* JSON client fetch_json, the staking and asset-profile fetchers, the     *)
(* transaction paginator get_transactions, the batch resolver              *)
(* fetch_parsed_signatures and the per-address loop of main.  The program  *)
(* is sequential; its position is a call stack of labels, the head of the  *)
(* stack being the frame that runs.                                        *)
(***************************************************************************)
EXTENDS Integers, Sequences, FiniteSets, TLC

VARIABLES
    stack,        \* call stack of labels, Head(stack) is the running frame
    outcome,      \* how the outermost function ended: none / return / raise
    retries,      \* fetch_json: parameter retries
    attempt,      \* fetch_json: loop variable of `for attempt in range(retries)`
    req,          \* fetch_json: the request (url, method, json) of this call
    fjLog,        \* history of this fetch_json call: attempts and sleeps
    fjResult,     \* what the last fetch_json call handed to its caller
    limit,        \* get_transactions: parameter limit
    normal_txs,   \* get_transactions: accepted normal transactions
    small_count,  \* get_transactions: number of sub-threshold transactions
    before,       \* get_transactions: pagination cursor
    data,         \* get_transactions: the page being classified
    idx,          \* get_transactions: position of `for tx in data` (1-based)
    pages,        \* history: the pages served to this call, in order
    cursors,      \* history: `before` of each page request of this call
    token_profiles, \* fetch_token_profiles_das / main: the profile list
    staked,       \* fetch_token_profiles_das: value of get_stake_accounts
    txs,          \* main: normal transactions of the address
    small_tx_count, \* main: small transactions of the address
    sigs,         \* main / fetch_parsed_signatures: signatures to resolve
    bi,           \* main / fetch_parsed_signatures: loop variable i of the batch loop
    parsed,       \* main: parsed records
    stats,        \* main: total and count, once computed
    analysis,     \* main: text kept from the narrative generator
    batch_size,   \* fetch_parsed_signatures: parameter batch_size
    results,      \* fetch_parsed_signatures: the records gathered
    sent,         \* history: the batches requested by the running batch loop
    answers,      \* history: the answers to those batches, in order
    events,       \* history of the current run: requests, failures, outputs
    stopped,      \* history: why the pagination of this analysis stopped
    upstream      \* environment: how much the upstream services hold

fjVars == <<retries, attempt, req, fjLog, fjResult>>
gtVars == <<limit, normal_txs, small_count, before, data, idx, pages, cursors>>
dasVars == <<token_profiles, staked>>
mainVars == <<txs, small_tx_count, sigs, bi, parsed, stats, analysis>>
fpVars == <<batch_size, results>>
vars == <<stack, outcome, fjVars, gtVars, dasVars, mainVars, fpVars, sent, answers,
          events, stopped, upstream>>

\* ---------------------------------------------------------------- bounds
MaxRetries == 4     \* fetch_json is explored for retries in 1..MaxRetries
MaxLimit == 2       \* get_transactions is explored for limit in 1..MaxLimit
MaxPageLen == 2     \* transactions per upstream page (100 upstream)
MaxTxs == 3         \* transactions the upstream history holds
MaxItems == 2       \* assets in the answer to getAssetsByOwner (100 upstream)
MainTxs == 2        \* transactions of the history in runs of the whole program
MainItems == 1      \* assets of the answer in runs of the whole program
DefaultLimit == 2   \* limit of main's call of get_transactions (500, line 112)
SigCap == 2         \* signatures main resolves (100, line 164)
BatchSize == 1      \* signatures per batch request of main (20, line 168)
LiveTxs == 1        \* transactions of the history in the runs checked for termination
MaxSigs == 3        \* fetch_parsed_signatures is explored for lists of up to MaxSigs
MaxBatch == 2       \* fetch_parsed_signatures is explored for batch_size in 1..MaxBatch

\* ------------------------------------------------------ python primitives
None == "<None>"

\* dict.get(key, default)
Get(d, k, default) == IF k \in DOMAIN d THEN d[k] ELSE default

\* truth value of a string-or-None: None and "" are falsy
Truthy(v) == v \notin {None, ""}

\* ------------------------------------------------------------- fetch_json
\* what an attempt raises: any exception of lines 28-31 (a network error,
\* raise_for_status, resp.json()) lands in the one except clause of line 32
Errors == {"ConnectError", "HTTPStatusError"}

NoResult == [kind |-> "none"]

\* Exception(f"Request failed: {e}")
RequestFailed(e) == [msg |-> "Request failed: ", cause |-> e]

\* opaque JSON documents an upstream may answer with
Documents == {"doc1", "doc2", "doc3"}

\* default of the parameter retries (line 25)
DefaultRetries == 3

\* ------------------------------------------------- upstream: history pages
SMALL_TX_THRESHOLD == 100000000

\* signature strings, unique per transaction
SigOf == <<"sig1", "sig2", "sig3", "sig4", "sig5", "sig6", "sig7", "sig8", "sig9",
           "sig10", "sig11", "sig12">>

\* the value-transfer part of a transaction summary: the key may be missing,
\* one transfer just below the threshold, two transfers of opposite sign
\* whose absolute values add up to exactly the threshold
TxBodies ==
    { [kind |-> "tx"],
      [kind |-> "tx", nativeTransfers |-> <<[amount |-> SMALL_TX_THRESHOLD - 1]>>],
      [kind |-> "tx", nativeTransfers |-> <<[amount |-> SMALL_TX_THRESHOLD \div 2],
                                            [amount |-> 0 - (SMALL_TX_THRESHOLD \div 2)]>>] }

\* the signature part: key missing, empty string, or the transaction's own
SigParts(id) == { [id |-> id], [id |-> id, signature |-> ""],
                  [id |-> id, signature |-> SigOf[id]] }

TxsWithId(id) == { b @@ sg : b \in TxBodies, sg \in SigParts(id) }

RECURSIVE Flatten(_)
\* concatenation of a sequence of sequences
Flatten(ss) == IF ss = <<>> THEN <<>> ELSE Head(ss) \o Flatten(Tail(ss))

\* every page of exactly n transactions whose ids follow `from`
RECURSIVE PagesOfLen(_, _)
PagesOfLen(from, n) ==
    IF n = 0 THEN { <<>> }
    ELSE { Append(p, tx) : p \in PagesOfLen(from, n - 1), tx \in TxsWithId(from + n) }

\* the history holds at most upstream.txs transactions: a page holds up to
\* MaxPageLen of those not served yet, and is empty once none is left
UpstreamPages ==
    LET served == Len(Flatten(pages))
        left == upstream.txs - served
        most == IF left < MaxPageLen THEN left ELSE MaxPageLen
    IN UNION { PagesOfLen(served, n) : n \in 0..most }

\* ------------------------------------------- upstream: assets and staking
\* 1e9 of lines 55 and 99
LAMPORTS_PER_SOL == 1000000000

\* an owned asset: without token_info, a token with a balance, a token with a
\* zero balance, a token without the decimals key
AssetVariants ==
    { [interface |-> "V1_NFT"],
      [interface |-> "FungibleToken",
       token_info |-> [symbol |-> "USDC", balance |-> 5, decimals |-> 1]],
      [interface |-> "FungibleToken",
       token_info |-> [symbol |-> "USDC", balance |-> 0, decimals |-> 6]],
      [interface |-> "FungibleToken",
       token_info |-> [symbol |-> "SOL", balance |-> 2]] }

RECURSIVE ItemLists(_)
ItemLists(n) ==
    IF n = 0 THEN { <<>> }
    ELSE ItemLists(n - 1) \cup
         { Append(l, a) : l \in { x \in ItemLists(n - 1) : Len(x) = n - 1 },
                          a \in AssetVariants }

\* answers to getAssetsByOwner: an error document without result, or a
\* result with items and with or without nativeBalance
AssetResponses ==
    { [error |-> "rpc error"] } \cup
    { [result |-> [items |-> l]] : l \in ItemLists(upstream.assets) } \cup
    { [result |-> [items |-> l, nativeBalance |-> [lamports |-> n]]] :
          l \in ItemLists(upstream.assets), n \in {0, 1500000000} }

\* answers to getProgramAccounts: no result, a list of accounts (an entry
\* may lack the account key), or a result that is not a list
StakeResponses ==
    { [error |-> "rpc error"],
      [result |-> [t |-> "list", v |-> <<>>]],
      [result |-> [t |-> "list", v |-> <<[account |-> [lamports |-> 1000000000]]>>]],
      [result |-> [t |-> "list", v |-> <<[account |-> [lamports |-> 1000000000]],
                                         [pubkey |-> "p2"]>>]],
      [result |-> [t |-> "null"]] }

\* ------------------------------------------- upstream: transaction details
\* a parsed record: type and tokenSymbol are both optional
ParsedVariants ==
    { [type |-> "SWAP", tokenSymbol |-> "USDC"],
      [type |-> "TRANSFER"],
      [tokenSymbol |-> "SOL"] }

RECURSIVE ParsedLists(_)
ParsedLists(n) ==
    IF n = 0 THEN { <<>> }
    ELSE ParsedLists(n - 1) \cup
         { Append(l, a) : l \in { x \in ParsedLists(n - 1) : Len(x) = n - 1 },
                          a \in ParsedVariants }

Responses(r) ==
    CASE r.kind = "txpage" -> UpstreamPages
      [] r.kind = "assets" -> AssetResponses
      [] r.kind = "stake" -> StakeResponses
      [] r.kind = "parse" -> ParsedLists(Len(r.batch))
      [] OTHER -> Documents

\* the caller evaluates fetch_json(...): push the frame, attempt = 0
CallFetchJson(r, n, rest) ==
    /\ stack' = <<"fj_try">> \o rest
    /\ req' = r
    /\ retries' = n
    /\ attempt' = 0
    /\ fjLog' = <<>>
    /\ fjResult' = NoResult
    /\ events' = Append(events, [ev |-> "request", kind |-> r.kind])

\* the caller has taken the result of the call: the frame's locals are gone
FetchJsonDone ==
    /\ req' = [kind |-> "none"]
    /\ retries' = DefaultRetries
    /\ attempt' = 0
    /\ fjLog' = <<>>
    /\ fjResult' = NoResult

\* lines 28-31: the request succeeds, fetch_json returns resp.json()
FetchAttemptOk ==
    /\ stack # <<>> /\ Head(stack) = "fj_try"
    /\ \E doc \in Responses(req) :
         /\ fjLog' = Append(fjLog, [ev |-> "attempt", n |-> attempt, ok |-> TRUE, res |-> doc])
         /\ fjResult' = [kind |-> "return", value |-> doc]
         /\ stack' = Tail(stack)
         /\ outcome' = IF Tail(stack) = <<>>
                         THEN [kind |-> "return", value |-> doc] ELSE outcome
    /\ UNCHANGED events
    /\ UNCHANGED <<retries, attempt, req, gtVars, dasVars, mainVars>>
    /\ UNCHANGED <<fpVars, sent, answers, upstream, stopped>>

\* the raised error wraps the failure of the first attempt instead of the last
FetchAttemptFail_WrapsFirst ==
    /\ stack # <<>> /\ Head(stack) = "fj_try"
    /\ \E e \in Errors :
         LET log == Append(fjLog, [ev |-> "attempt", n |-> attempt, ok |-> FALSE, res |-> e])
         IN
         /\ fjLog' = log
         /\ IF attempt = retries - 1
              THEN /\ fjResult' = [kind |-> "raise", error |-> RequestFailed(log[1].res)]
                   /\ stack' = Tail(stack)
                   /\ outcome' = IF Tail(stack) = <<>>
                                   THEN [kind |-> "raise", error |-> RequestFailed(log[1].res)]
                                   ELSE outcome
                   /\ events' = Append(events, [ev |-> "raise", kind |-> req.kind])
              ELSE /\ stack' = <<"fj_sleep">> \o Tail(stack)
                   /\ UNCHANGED <<fjResult, outcome, events>>
    /\ UNCHANGED <<retries, attempt, req, gtVars, dasVars, mainVars>>
    /\ UNCHANGED <<fpVars, sent, answers, upstream, stopped>>

\* the sleep also runs after the last attempt, before the error is raised
FetchAttemptFail_SleepsLast ==
    /\ stack # <<>> /\ Head(stack) = "fj_try"
    /\ \E e \in Errors :
         LET log == Append(fjLog, [ev |-> "attempt", n |-> attempt, ok |-> FALSE, res |-> e])
         IN
         /\ IF attempt = retries - 1
              THEN /\ fjLog' = Append(log, [ev |-> "sleep", n |-> attempt, ok |-> TRUE, res |-> "1s"])
                   /\ fjResult' = [kind |-> "raise", error |-> RequestFailed(e)]
                   /\ stack' = Tail(stack)
                   /\ outcome' = IF Tail(stack) = <<>>
                                   THEN [kind |-> "raise", error |-> RequestFailed(e)]
                                   ELSE outcome
                   /\ events' = Append(events, [ev |-> "raise", kind |-> req.kind])
              ELSE /\ fjLog' = log
                   /\ stack' = <<"fj_sleep">> \o Tail(stack)
                   /\ UNCHANGED <<fjResult, outcome, events>>
    /\ UNCHANGED <<retries, attempt, req, gtVars, dasVars, mainVars>>
    /\ UNCHANGED <<fpVars, sent, answers, upstream, stopped>>

\* lines 32-35: the attempt raises e; re-raise wrapped on the last attempt,
\* otherwise go on to asyncio.sleep(1)
FetchAttemptFail ==
    /\ stack # <<>> /\ Head(stack) = "fj_try"
    /\ \E e \in Errors :
         /\ fjLog' = Append(fjLog, [ev |-> "attempt", n |-> attempt, ok |-> FALSE, res |-> e])
         /\ IF attempt = retries - 1
              THEN /\ fjResult' = [kind |-> "raise", error |-> RequestFailed(e)]
                   /\ stack' = Tail(stack)
                   /\ outcome' = IF Tail(stack) = <<>>
                                   THEN [kind |-> "raise", error |-> RequestFailed(e)]
                                   ELSE outcome
                   /\ events' = Append(events, [ev |-> "raise", kind |-> req.kind])
              ELSE /\ stack' = <<"fj_sleep">> \o Tail(stack)
                   /\ UNCHANGED <<fjResult, outcome, events>>
    /\ UNCHANGED <<retries, attempt, req, gtVars, dasVars, mainVars>>
    /\ UNCHANGED <<fpVars, sent, answers, upstream, stopped>>

\* line 35 completes, the for loop takes the next attempt
FetchSleep ==
    /\ stack # <<>> /\ Head(stack) = "fj_sleep"
    /\ fjLog' = Append(fjLog, [ev |-> "sleep", n |-> attempt, ok |-> TRUE, res |-> "1s"])
    /\ attempt' = attempt + 1
    /\ stack' = <<"fj_try">> \o Tail(stack)
    /\ UNCHANGED <<outcome, retries, req, fjResult, gtVars, dasVars, mainVars, events>>
    /\ UNCHANGED <<fpVars, sent, answers, upstream, stopped>>

FetchJson == FetchAttemptOk \/ FetchAttemptFail \/ FetchSleep

\* values of the locals of the functions that are not running
GtIdle ==
    /\ limit = 0 /\ normal_txs = <<>> /\ small_count = 0 /\ before = None
    /\ data = <<>> /\ idx = 0 /\ pages = <<>> /\ cursors = <<>>

DasIdle == token_profiles = <<>> /\ staked = [num |-> 0, den |-> 1]

MainIdle ==
    /\ txs = <<>> /\ small_tx_count = 0 /\ sigs = <<>> /\ bi = 0
    /\ parsed = <<>> /\ stats = [kind |-> "none"] /\ analysis = ""
    /\ sent = <<>> /\ answers = <<>>
    /\ stopped = "none"

FpIdle == batch_size = 0 /\ results = <<>>

\* ------------------------------------------- specification: fetch_json alone
InitFetch ==
    /\ stack = <<"fj_try">>
    /\ outcome = [kind |-> "none"]
    /\ retries \in 1..MaxRetries
    /\ attempt = 0
    /\ req = [kind |-> "any"]
    /\ fjLog = <<>>
    /\ fjResult = NoResult
    /\ GtIdle /\ DasIdle /\ MainIdle /\ FpIdle
    /\ events = <<>>
    /\ upstream = [txs |-> 0, assets |-> 0]

NextFetch == FetchAttemptOk \/ FetchAttemptFail \/ FetchSleep

SpecFetch == InitFetch /\ [][NextFetch]_vars

\* --------------------------------------------------------- get_transactions
RECURSIVE SumAbs(_)
\* sum(abs(x.get("amount", 0)) for x in transfers)
SumAbs(transfers) ==
    IF transfers = <<>> THEN 0
    ELSE LET a == Get(Head(transfers), "amount", 0)
         IN (IF a < 0 THEN 0 - a ELSE a) + SumAbs(Tail(transfers))

\* line 131
Lam(tx) == SumAbs(Get(tx, "nativeTransfers", <<>>))

\* the comparison of line 132 is <= instead of <
IsSmall_Inclusive(tx) == Lam(tx) <= SMALL_TX_THRESHOLD

\* line 132
IsSmall(tx) == Lam(tx) < SMALL_TX_THRESHOLD

\* an exception no frame handles (only get_stake_accounts has a handler):
\* every frame is unwound and the outermost function ends with the error
Unhandled(err) ==
    /\ stack' = <<>>
    /\ outcome' = [kind |-> "raise", error |-> err]

\* lines 119-122: build the url, with &before= when the cursor is set, and
\* call fetch_json with its default retries
GtRequest ==
    /\ stack # <<>> /\ Head(stack) = "gt_fetch"
    /\ CallFetchJson([kind |-> "txpage", before |-> before], DefaultRetries,
                     <<"gt_await">> \o Tail(stack))
    /\ cursors' = Append(cursors, before)
    /\ UNCHANGED <<outcome, limit, normal_txs, small_count, before, data, idx, pages>>
    /\ UNCHANGED <<dasVars, mainVars>>
    /\ UNCHANGED <<fpVars, sent, answers, upstream, stopped>>

\* get_transactions returns (normal_txs, small_count), line 141
GtReturn ==
    /\ stack' = Tail(stack)
    /\ outcome' = IF Tail(stack) = <<>>
                    THEN [kind |-> "return", value |-> <<normal_txs, small_count>>]
                    ELSE outcome

\* a failed page fetch ends the loop like an empty page: the transactions
\* gathered so far are returned
GtPage_ReturnsPartial ==
    /\ stack # <<>> /\ Head(stack) = "gt_await"
    /\ IF fjResult.kind = "raise"
         THEN /\ GtReturn
              /\ FetchJsonDone
              /\ UNCHANGED <<data, idx, pages>>
         ELSE /\ FetchJsonDone
              /\ data' = fjResult.value
              /\ pages' = Append(pages, fjResult.value)
              /\ IF fjResult.value = <<>>
                   THEN /\ GtReturn
                        /\ idx' = idx
                   ELSE /\ stack' = <<"gt_for">> \o Tail(stack)
                        /\ idx' = 1
                        /\ UNCHANGED outcome
    /\ UNCHANGED <<limit, normal_txs, small_count, before, cursors>>
    /\ UNCHANGED <<dasVars, mainVars, events>>
    /\ UNCHANGED <<fpVars, sent, answers, upstream, stopped>>

\* lines 122-124: the page arrives; an empty page ends the loop, a failed
\* fetch propagates
GtPage ==
    /\ stack # <<>> /\ Head(stack) = "gt_await"
    /\ IF fjResult.kind = "raise"
         THEN /\ Unhandled(fjResult.error)
              /\ UNCHANGED <<fjVars, data, idx, pages>>
         ELSE /\ FetchJsonDone
              /\ data' = fjResult.value
              /\ pages' = Append(pages, fjResult.value)
              /\ IF fjResult.value = <<>>
                   THEN /\ GtReturn
                        /\ idx' = idx
                   ELSE /\ stack' = <<"gt_for">> \o Tail(stack)
                        /\ idx' = 1
                        /\ UNCHANGED outcome
    /\ UNCHANGED <<limit, normal_txs, small_count, before, cursors>>
    /\ UNCHANGED <<dasVars, mainVars, events>>
    /\ UNCHANGED <<fpVars, sent, answers, upstream, stopped>>

\* the for loop lacks the break of line 137 and runs to the end of the page
GtClassify_NoBreak ==
    /\ stack # <<>> /\ Head(stack) = "gt_for"
    /\ LET tx == data[idx] IN
         /\ IF IsSmall(tx)
              THEN small_count' = small_count + 1 /\ UNCHANGED normal_txs
              ELSE normal_txs' = Append(normal_txs, tx) /\ UNCHANGED small_count
         /\ idx' = idx + 1
         /\ stack' = (IF idx = Len(data) THEN <<"gt_check">> ELSE <<"gt_for">>)
                     \o Tail(stack)
    /\ UNCHANGED <<outcome, fjVars, limit, before, data, pages, cursors>>
    /\ UNCHANGED <<dasVars, mainVars, events>>
    /\ UNCHANGED <<fpVars, sent, answers, upstream, stopped>>

\* a sub-threshold transaction is counted and also kept as a normal one
GtClassify_CountsTwice ==
    /\ stack # <<>> /\ Head(stack) = "gt_for"
    /\ LET tx == data[idx] IN
         /\ small_count' = IF IsSmall(tx) THEN small_count + 1 ELSE small_count
         /\ normal_txs' = Append(normal_txs, tx)
         /\ IF Len(normal_txs') >= limit
              THEN /\ idx' = idx
                   /\ stack' = <<"gt_check">> \o Tail(stack)
              ELSE /\ idx' = idx + 1
                   /\ stack' = (IF idx = Len(data) THEN <<"gt_check">>
                                ELSE <<"gt_for">>) \o Tail(stack)
    /\ UNCHANGED <<outcome, fjVars, limit, before, data, pages, cursors>>
    /\ UNCHANGED <<dasVars, mainVars, events>>
    /\ UNCHANGED <<fpVars, sent, answers, upstream, stopped>>

\* the break of line 136 tests > instead of >=
GtClassify_BreaksLate ==
    /\ stack # <<>> /\ Head(stack) = "gt_for"
    /\ LET tx == data[idx] IN
         IF IsSmall(tx)
           THEN /\ small_count' = small_count + 1
                /\ UNCHANGED normal_txs
                /\ idx' = idx + 1
                /\ stack' = (IF idx = Len(data) THEN <<"gt_check">> ELSE <<"gt_for">>)
                            \o Tail(stack)
           ELSE /\ normal_txs' = Append(normal_txs, tx)
                /\ UNCHANGED small_count
                /\ IF Len(normal_txs') > limit
                     THEN /\ idx' = idx
                          /\ stack' = <<"gt_check">> \o Tail(stack)
                     ELSE /\ idx' = idx + 1
                          /\ stack' = (IF idx = Len(data) THEN <<"gt_check">>
                                       ELSE <<"gt_for">>) \o Tail(stack)
    /\ UNCHANGED <<outcome, fjVars, limit, before, data, pages, cursors>>
    /\ UNCHANGED <<dasVars, mainVars, events>>
    /\ UNCHANGED <<fpVars, sent, answers, upstream, stopped>>

\* lines 130-137: one iteration of `for tx in data`
GtClassify ==
    /\ stack # <<>> /\ Head(stack) = "gt_for"
    /\ LET tx == data[idx] IN
         IF IsSmall(tx)
           THEN /\ small_count' = small_count + 1
                /\ UNCHANGED normal_txs
                /\ idx' = idx + 1
                /\ stack' = (IF idx = Len(data) THEN <<"gt_check">> ELSE <<"gt_for">>)
                            \o Tail(stack)
           ELSE /\ normal_txs' = Append(normal_txs, tx)
                /\ UNCHANGED small_count
                /\ IF Len(normal_txs') >= limit
                     THEN /\ idx' = idx
                          /\ stack' = <<"gt_check">> \o Tail(stack)
                     ELSE /\ idx' = idx + 1
                          /\ stack' = (IF idx = Len(data) THEN <<"gt_check">>
                                       ELSE <<"gt_for">>) \o Tail(stack)
    /\ UNCHANGED <<outcome, fjVars, limit, before, data, pages, cursors>>
    /\ UNCHANGED <<dasVars, mainVars, events>>
    /\ UNCHANGED <<fpVars, sent, answers, upstream, stopped>>

\* line 138 lacks the test of the limit
GtCheck_IgnoresLimit ==
    /\ stack # <<>> /\ Head(stack) = "gt_check"
    /\ LET sig == Get(data[Len(data)], "signature", None) IN
         IF ~Truthy(sig)
           THEN /\ GtReturn
                /\ UNCHANGED before
           ELSE /\ before' = sig
                /\ stack' = <<"gt_fetch">> \o Tail(stack)
                /\ UNCHANGED outcome
    /\ UNCHANGED <<fjVars, limit, normal_txs, small_count, data, idx, pages, cursors>>
    /\ UNCHANGED <<dasVars, mainVars, events>>
    /\ UNCHANGED <<fpVars, sent, answers, upstream, stopped>>

\* the cursor is taken from the first transaction of the page, not the last
GtCheck_CursorFromFirst ==
    /\ stack # <<>> /\ Head(stack) = "gt_check"
    /\ LET sig == Get(data[1], "signature", None) IN
         IF Len(normal_txs) >= limit \/ ~Truthy(sig)
           THEN /\ GtReturn
                /\ UNCHANGED before
           ELSE /\ before' = sig
                /\ stack' = <<"gt_fetch">> \o Tail(stack)
                /\ UNCHANGED outcome
    /\ UNCHANGED <<fjVars, limit, normal_txs, small_count, data, idx, pages, cursors>>
    /\ UNCHANGED <<dasVars, mainVars, events>>
    /\ UNCHANGED <<fpVars, sent, answers, upstream, stopped>>

\* the loop is left after the first page whatever it holds
GtCheck_StopsAfterFirstPage ==
    /\ stack # <<>> /\ Head(stack) = "gt_check"
    /\ GtReturn
    /\ UNCHANGED before
    /\ UNCHANGED <<fjVars, limit, normal_txs, small_count, data, idx, pages, cursors>>
    /\ UNCHANGED <<dasVars, mainVars, events>>
    /\ UNCHANGED <<fpVars, sent, answers, upstream, stopped>>

\* line 138 lacks the test of the signature: the cursor takes whatever the
\* last transaction holds
GtCheck_IgnoresSignature ==
    /\ stack # <<>> /\ Head(stack) = "gt_check"
    /\ LET sig == Get(data[Len(data)], "signature", None) IN
         IF Len(normal_txs) >= limit
           THEN /\ GtReturn
                /\ UNCHANGED before
           ELSE /\ before' = sig
                /\ stack' = <<"gt_fetch">> \o Tail(stack)
                /\ UNCHANGED outcome
    /\ UNCHANGED <<fjVars, limit, normal_txs, small_count, data, idx, pages, cursors>>
    /\ UNCHANGED <<dasVars, mainVars, events>>
    /\ UNCHANGED <<fpVars, sent, answers, upstream, stopped>>

\* lines 138-140: stop on the limit or on a last transaction without
\* signature, otherwise move the cursor and fetch the next page
GtCheck ==
    /\ stack # <<>> /\ Head(stack) = "gt_check"
    /\ LET sig == Get(data[Len(data)], "signature", None) IN
         IF Len(normal_txs) >= limit \/ ~Truthy(sig)
           THEN /\ GtReturn
                /\ UNCHANGED before
           ELSE /\ before' = sig
                /\ stack' = <<"gt_fetch">> \o Tail(stack)
                /\ UNCHANGED outcome
    /\ UNCHANGED <<fjVars, limit, normal_txs, small_count, data, idx, pages, cursors>>
    /\ UNCHANGED <<dasVars, mainVars, events>>
    /\ UNCHANGED <<fpVars, sent, answers, upstream, stopped>>

GetTransactions == GtRequest \/ GtPage \/ GtClassify \/ GtCheck

\* lines 116-117: the state of get_transactions on entry
GtEntry(l) ==
    /\ limit = l
    /\ normal_txs = <<>>
    /\ small_count = 0
    /\ before = None
    /\ data = <<>> /\ idx = 0 /\ pages = <<>> /\ cursors = <<>>

\* ------------------------------------- specification: get_transactions alone
InitTx ==
    /\ stack = <<"gt_fetch">>
    /\ outcome = [kind |-> "none"]
    /\ retries = DefaultRetries /\ attempt = 0 /\ req = [kind |-> "none"]
    /\ fjLog = <<>> /\ fjResult = NoResult
    /\ \E l \in 1..MaxLimit : GtEntry(l)
    /\ DasIdle /\ MainIdle /\ FpIdle
    /\ events = <<>>
    /\ upstream = [txs |-> MaxTxs, assets |-> 0]

NextTx == FetchAttemptOk \/ FetchAttemptFail \/ FetchSleep
          \/ GtRequest \/ GtPage \/ GtClassify \/ GtCheck

SpecTx == InitTx /\ [][NextTx]_vars

\* ------------------- specification: get_transactions running to completion
\* the interpreter keeps running the one coroutine there is (asyncio.run,
\* line 276): a step that can be taken is taken
InitTxLive ==
    /\ stack = <<"gt_fetch">>
    /\ outcome = [kind |-> "none"]
    /\ retries = DefaultRetries /\ attempt = 0 /\ req = [kind |-> "none"]
    /\ fjLog = <<>> /\ fjResult = NoResult
    /\ \E l \in 1..MaxLimit : GtEntry(l)
    /\ DasIdle /\ MainIdle /\ FpIdle
    /\ events = <<>>
    /\ upstream = [txs |-> LiveTxs, assets |-> 0]

SpecTxLive == InitTxLive /\ [][NextTx]_vars /\ WF_vars(NextTx)

\* -------------------------------------------------------- get_stake_accounts
\* a float quotient num / den, kept exact
Ratio(num, den) == [num |-> num, den |-> den]

\* the float 0.0
Zero == Ratio(0, 1)

EmptyDict == <<>>

RECURSIVE SumLamports(_)
\* sum(account.get("account", {}).get("lamports", 0) for account in accounts)
SumLamports(accounts) ==
    IF accounts = <<>> THEN 0
    ELSE Get(Get(Head(accounts), "account", EmptyDict), "lamports", 0)
         + SumLamports(Tail(accounts))

\* data.get("result", []) can be iterated
Summable(d) == Get(d, "result", [t |-> "list", v |-> <<>>]).t = "list"

\* line 55
StakeOf(d) ==
    Ratio(SumLamports(Get(d, "result", [t |-> "list", v |-> <<>>]).v), LAMPORTS_PER_SOL)

\* line 54: the request to the public RPC endpoint
StCall ==
    /\ stack # <<>> /\ Head(stack) = "st_call"
    /\ CallFetchJson([kind |-> "stake"], DefaultRetries, <<"st_await">> \o Tail(stack))
    /\ UNCHANGED <<outcome, gtVars, dasVars, mainVars>>
    /\ UNCHANGED <<fpVars, sent, answers, upstream, stopped>>

\* the except clause of lines 56-58 is missing: the failure propagates
StAwait_NoHandler ==
    /\ stack # <<>> /\ Head(stack) = "st_await"
    /\ IF fjResult.kind = "raise"
         THEN /\ Unhandled(fjResult.error)
              /\ UNCHANGED <<fjVars, staked, events>>
         ELSE IF ~Summable(fjResult.value)
         THEN /\ Unhandled("TypeError")
              /\ UNCHANGED <<fjVars, staked, events>>
         ELSE /\ staked' = StakeOf(fjResult.value)
              /\ stack' = Tail(stack)
              /\ FetchJsonDone
              /\ UNCHANGED <<outcome, events>>
    /\ UNCHANGED <<gtVars, token_profiles, mainVars>>
    /\ UNCHANGED <<fpVars, sent, answers, upstream, stopped>>

\* lines 55-58: the sum in native units, or the warning and 0.0 when the
\* request failed or the sum raised; the value lands in `staked` (line 102)
StAwait ==
    /\ stack # <<>> /\ Head(stack) = "st_await"
    /\ IF fjResult.kind = "raise" \/ ~Summable(fjResult.value)
         THEN /\ staked' = Zero
              /\ events' = Append(events, [ev |-> "warning", kind |-> "stake"])
         ELSE /\ staked' = StakeOf(fjResult.value)
              /\ UNCHANGED events
    /\ stack' = Tail(stack)
    /\ FetchJsonDone
    /\ UNCHANGED <<outcome, gtVars, token_profiles, mainVars>>
    /\ UNCHANGED <<fpVars, sent, answers, upstream, stopped>>

\* --------------------------------------------------- fetch_token_profiles_das
RECURSIVE Pow10(_)
Pow10(n) == IF n = 0 THEN 1 ELSE 10 * Pow10(n - 1)

\* the string "" of the txVolume field
EmptyStr == [text |-> ""]

Profile(sym, bal) == [symbol |-> sym, balance |-> bal, txVolume |-> EmptyStr]

RECURSIVE TokenEntries_KeepsZero(_)
\* the test of line 92 is missing: an item with balance 0 is listed too
TokenEntries_KeepsZero(items) ==
    IF items = <<>> THEN <<>>
    ELSE LET token_info == Get(Head(items), "token_info", EmptyDict)
             symbol == Get(token_info, "symbol", "Unknown")
             decimals == Get(token_info, "decimals", 0)
             balance == Ratio(Get(token_info, "balance", 0), Pow10(decimals))
         IN (IF symbol = "Unknown" THEN <<>>
             ELSE <<Profile(symbol, balance)>>)
            \o TokenEntries_KeepsZero(Tail(items))

RECURSIVE TokenEntries(_)
\* lines 84-94
TokenEntries(items) ==
    IF items = <<>> THEN <<>>
    ELSE LET token_info == Get(Head(items), "token_info", EmptyDict)
             symbol == Get(token_info, "symbol", "Unknown")
             decimals == Get(token_info, "decimals", 0)
             balance == Ratio(Get(token_info, "balance", 0), Pow10(decimals))
         IN (IF symbol = "Unknown" \/ balance.num = 0 THEN <<>>
             ELSE <<Profile(symbol, balance)>>)
            \o TokenEntries(Tail(items))

\* lines 97-99
SolEntry(res) ==
    LET lamports == Get(Get(res, "nativeBalance", EmptyDict), "lamports", 0)
    IN IF lamports # 0 THEN <<Profile("SOL", Ratio(lamports, LAMPORTS_PER_SOL))>>
       ELSE <<>>

\* line 81: the getAssetsByOwner request
DasCall ==
    /\ stack # <<>> /\ Head(stack) = "das_call"
    /\ CallFetchJson([kind |-> "assets"], DefaultRetries, <<"das_await">> \o Tail(stack))
    /\ UNCHANGED <<outcome, gtVars, dasVars, mainVars>>
    /\ UNCHANGED <<fpVars, sent, answers, upstream, stopped>>

\* lines 81-102: a failed request propagates; otherwise the token entries
\* and the SOL entry are built and get_stake_accounts is called
DasAwait ==
    /\ stack # <<>> /\ Head(stack) = "das_await"
    /\ IF fjResult.kind = "raise"
         THEN /\ Unhandled(fjResult.error)
              /\ UNCHANGED <<fjVars, token_profiles>>
         ELSE LET res == Get(fjResult.value, "result", EmptyDict) IN
              /\ token_profiles' = TokenEntries(Get(res, "items", <<>>)) \o SolEntry(res)
              /\ stack' = <<"st_call", "das_staked">> \o Tail(stack)
              /\ FetchJsonDone
              /\ UNCHANGED outcome
    /\ UNCHANGED <<gtVars, staked, mainVars, events>>
    /\ UNCHANGED <<fpVars, sent, answers, upstream, stopped>>

\* lines 103-106
DasStaked ==
    /\ stack # <<>> /\ Head(stack) = "das_staked"
    /\ token_profiles' = IF staked.num > 0
                           THEN Append(token_profiles, Profile("stakedSOL", staked))
                           ELSE token_profiles
    /\ stack' = Tail(stack)
    /\ outcome' = IF Tail(stack) = <<>>
                    THEN [kind |-> "return", value |-> token_profiles']
                    ELSE outcome
    /\ UNCHANGED <<fjVars, gtVars, staked, mainVars, events>>
    /\ UNCHANGED <<fpVars, sent, answers, upstream, stopped>>

\* --------------------------- specification: fetch_token_profiles_das alone
InitDas ==
    /\ stack = <<"das_call">>
    /\ outcome = [kind |-> "none"]
    /\ retries = DefaultRetries /\ attempt = 0 /\ req = [kind |-> "none"]
    /\ fjLog = <<>> /\ fjResult = NoResult
    /\ GtIdle /\ DasIdle /\ MainIdle /\ FpIdle
    /\ events = <<>>
    /\ upstream = [txs |-> 0, assets |-> MaxItems]

NextDas == FetchAttemptOk \/ FetchAttemptFail \/ FetchSleep
           \/ DasCall \/ DasAwait \/ StCall \/ StAwait \/ DasStaked

SpecDas == InitDas /\ [][NextDas]_vars

\* ---------------------------------------------------- fetch_parsed_signatures
\* the python slice s[i:i+n] of a list, i counted from 0
Slice(s, i, n) == SubSeq(s, i + 1, IF i + n < Len(s) THEN i + n ELSE Len(s))

\* lines 146-148 and 151: the next value of i and its batch request, or the
\* end of the range and the return of results
FpBatch ==
    /\ stack # <<>> /\ Head(stack) = "fp_batch"
    /\ IF bi < Len(sigs)
         THEN /\ CallFetchJson([kind |-> "parse", batch |-> Slice(sigs, bi, batch_size)],
                               DefaultRetries, <<"fp_await">> \o Tail(stack))
              /\ sent' = Append(sent, Slice(sigs, bi, batch_size))
              /\ UNCHANGED outcome
         ELSE /\ stack' = Tail(stack)
              /\ outcome' = IF Tail(stack) = <<>>
                              THEN [kind |-> "return", value |-> results] ELSE outcome
              /\ UNCHANGED <<fjVars, events, sent>>
    /\ UNCHANGED <<gtVars, dasVars, mainVars, fpVars, answers, upstream, stopped>>

\* results is overwritten by the answer instead of extended
FpAwait_Overwrites ==
    /\ stack # <<>> /\ Head(stack) = "fp_await"
    /\ IF fjResult.kind = "raise"
         THEN /\ Unhandled(fjResult.error)
              /\ UNCHANGED <<fjVars, results, answers>>
         ELSE /\ results' = fjResult.value
              /\ answers' = Append(answers, fjResult.value)
              /\ stack' = <<"fp_sleep">> \o Tail(stack)
              /\ FetchJsonDone
              /\ UNCHANGED outcome
    /\ UNCHANGED <<gtVars, dasVars, mainVars, batch_size, sent, events, upstream, stopped>>

\* lines 148-149: a failed request propagates, otherwise results.extend(data)
FpAwait ==
    /\ stack # <<>> /\ Head(stack) = "fp_await"
    /\ IF fjResult.kind = "raise"
         THEN /\ Unhandled(fjResult.error)
              /\ UNCHANGED <<fjVars, results, answers>>
         ELSE /\ results' = results \o fjResult.value
              /\ answers' = Append(answers, fjResult.value)
              /\ stack' = <<"fp_sleep">> \o Tail(stack)
              /\ FetchJsonDone
              /\ UNCHANGED outcome
    /\ UNCHANGED <<gtVars, dasVars, mainVars, batch_size, sent, events, upstream, stopped>>

\* line 150, then the next value of i
FpSleep ==
    /\ stack # <<>> /\ Head(stack) = "fp_sleep"
    /\ events' = Append(events, [ev |-> "pause", kind |-> "batch"])
    /\ bi' = bi + batch_size
    /\ stack' = <<"fp_batch">> \o Tail(stack)
    /\ UNCHANGED <<outcome, fjVars, gtVars, dasVars, txs, small_tx_count, sigs, parsed,
                   stats, analysis, fpVars, sent, answers, upstream, stopped>>

\* the signature lists of at most n entries; a signature may occur twice
RECURSIVE SigLists(_)
SigLists(n) ==
    IF n = 0 THEN { <<>> }
    ELSE SigLists(n - 1) \cup
         { Append(l, s) : l \in { x \in SigLists(n - 1) : Len(x) = n - 1 },
                          s \in {SigOf[1], SigOf[2]} }

\* ------------------------------ specification: fetch_parsed_signatures alone
InitParse ==
    /\ stack = <<"fp_batch">>
    /\ outcome = [kind |-> "none"]
    /\ retries = DefaultRetries /\ attempt = 0 /\ req = [kind |-> "none"]
    /\ fjLog = <<>> /\ fjResult = NoResult
    /\ GtIdle /\ DasIdle
    /\ txs = <<>> /\ small_tx_count = 0 /\ parsed = <<>>
    /\ stats = [kind |-> "none"] /\ analysis = ""
    /\ sigs \in SigLists(MaxSigs)
    /\ batch_size \in 1..MaxBatch
    /\ bi = 0
    /\ results = <<>>
    /\ sent = <<>> /\ answers = <<>>
    /\ stopped = "none"
    /\ events = <<>>
    /\ upstream = [txs |-> 0, assets |-> 0]

NextParse == FetchAttemptOk \/ FetchAttemptFail \/ FetchSleep
             \/ FpBatch \/ FpAwait \/ FpSleep

SpecParse == InitParse /\ [][NextParse]_vars

\* ----------------------------------------------------------------- main
\* lines 157-161: read an address; exit ends the program, anything else
\* starts the analysis with get_transactions(addr)
MPrompt ==
    /\ stack # <<>> /\ Head(stack) = "m_prompt"
    /\ \E addr \in {"exit", "address"} :
         IF addr = "exit"
           THEN /\ stack' = <<>>
                /\ outcome' = [kind |-> "return", value |-> None]
                /\ UNCHANGED gtVars
           ELSE /\ stack' = <<"gt_fetch", "m_txs">>
                /\ limit' = DefaultLimit
                /\ normal_txs' = <<>> /\ small_count' = 0 /\ before' = None
                /\ data' = <<>> /\ idx' = 0 /\ pages' = <<>> /\ cursors' = <<>>
                /\ UNCHANGED outcome
    /\ UNCHANGED <<fjVars, dasVars, mainVars, events>>
    /\ UNCHANGED <<fpVars, sent, answers, upstream, stopped>>

\* line 161 binds the pair returned, line 162 calls the profile builder
MTxs ==
    /\ stack # <<>> /\ Head(stack) = "m_txs"
    /\ txs' = normal_txs
    /\ small_tx_count' = small_count
    /\ limit' = 0 /\ normal_txs' = <<>> /\ small_count' = 0 /\ before' = None
    /\ data' = <<>> /\ idx' = 0 /\ pages' = <<>> /\ cursors' = <<>>
    /\ stack' = <<"das_call", "m_profiles">>
    /\ stopped' = (IF pages[Len(pages)] = <<>> THEN "empty"
                   ELSE IF Len(normal_txs) >= limit THEN "limit"
                   ELSE "unsigned")
    /\ UNCHANGED <<outcome, fjVars, dasVars, sigs, bi, parsed, stats, analysis, events>>
    /\ UNCHANGED <<fpVars, sent, answers, upstream>>

RECURSIVE Signatures(_)
\* [tx["signature"] for tx in txs]
Signatures(ts) ==
    IF ts = <<>> THEN <<>> ELSE <<Head(ts).signature>> \o Signatures(Tail(ts))

\* lines 162-167: the profiles are bound; the signatures are taken from
\* the transactions, a transaction without the key raising KeyError
MProfiles ==
    /\ stack # <<>> /\ Head(stack) = "m_profiles"
    /\ IF \E i \in 1..Len(txs) : "signature" \notin DOMAIN txs[i]
         THEN /\ Unhandled("KeyError: 'signature'")
              /\ UNCHANGED <<sigs, bi, parsed, stopped>>
         ELSE /\ sigs' = SubSeq(Signatures(txs), 1,
                                IF Len(txs) < SigCap THEN Len(txs) ELSE SigCap)
              /\ bi' = 0
              /\ parsed' = <<>>
              /\ stack' = <<"m_batch">>
              /\ stopped' = "none"
              /\ UNCHANGED outcome
    /\ staked' = Zero
    /\ UNCHANGED <<fjVars, gtVars, token_profiles, txs, small_tx_count, stats,
                   analysis, events>>
    /\ UNCHANGED <<fpVars, sent, answers, upstream>>

\* lines 168-170: the next batch is requested, or the loop is over
MBatch ==
    /\ stack # <<>> /\ Head(stack) = "m_batch"
    /\ IF bi < Len(sigs)
         THEN CallFetchJson(
                [kind |-> "parse",
                 batch |-> SubSeq(sigs, bi + 1,
                                  IF bi + BatchSize < Len(sigs) THEN bi + BatchSize
                                  ELSE Len(sigs))],
                DefaultRetries, <<"m_batch_await">>)
              /\ sent' = Append(sent, req'.batch)
         ELSE /\ stack' = <<"m_stats">>
              /\ UNCHANGED <<fjVars, events, sent>>
    /\ UNCHANGED <<outcome, gtVars, dasVars, mainVars>>
    /\ UNCHANGED <<fpVars, answers, upstream, stopped>>

\* lines 170-171: a failed request propagates, otherwise parsed.extend(data)
MBatchAwait ==
    /\ stack # <<>> /\ Head(stack) = "m_batch_await"
    /\ IF fjResult.kind = "raise"
         THEN /\ Unhandled(fjResult.error)
              /\ UNCHANGED <<fjVars, parsed, answers>>
         ELSE /\ parsed' = parsed \o fjResult.value
              /\ answers' = Append(answers, fjResult.value)
              /\ stack' = <<"m_batch_sleep">>
              /\ FetchJsonDone
              /\ UNCHANGED outcome
    /\ UNCHANGED <<gtVars, dasVars, txs, small_tx_count, sigs, bi, stats, analysis, events>>
    /\ UNCHANGED <<fpVars, sent, upstream, stopped>>

\* line 176 is missing: the next batch follows at once
MBatchSleep_NoPause ==
    /\ stack # <<>> /\ Head(stack) = "m_batch_sleep"
    /\ bi' = bi + BatchSize
    /\ stack' = <<"m_batch">>
    /\ UNCHANGED <<outcome, fjVars, gtVars, dasVars, txs, small_tx_count, sigs, parsed,
                   stats, analysis, events>>
    /\ UNCHANGED <<fpVars, sent, answers, upstream, stopped>>

\* line 176, then the next value of i
MBatchSleep ==
    /\ stack # <<>> /\ Head(stack) = "m_batch_sleep"
    /\ events' = Append(events, [ev |-> "pause", kind |-> "batch"])
    /\ bi' = bi + BatchSize
    /\ stack' = <<"m_batch">>
    /\ UNCHANGED <<outcome, fjVars, gtVars, dasVars, txs, small_tx_count, sigs, parsed,
                   stats, analysis>>
    /\ UNCHANGED <<fpVars, sent, answers, upstream, stopped>>

\* tx.get("type", "UNKNOWN")
TypeOf(rec) == Get(rec, "type", "UNKNOWN")

\* the default "UNKNOWN" is missing: a record without a type is not counted
Counter_SkipsUntyped(recs) ==
    [t \in { recs[i].type : i \in { j \in 1..Len(recs) : "type" \in DOMAIN recs[j] } } |->
        Cardinality({ i \in 1..Len(recs) : "type" \in DOMAIN recs[i] /\ recs[i].type = t })]

\* Counter(tx.get("type", "UNKNOWN") for tx in parsed)
Counter(recs) ==
    [t \in { TypeOf(recs[i]) : i \in 1..Len(recs) } |->
        Cardinality({ i \in 1..Len(recs) : TypeOf(recs[i]) = t })]

\* sum(1 for tx in parsed if tx.get("tokenSymbol", "") == sym)
SymbolCount(recs, sym) ==
    Cardinality({ i \in 1..Len(recs) : Get(recs[i], "tokenSymbol", "") = sym })

\* the quotient is multiplied by 100 before the % format multiplies it again
FormatPct_ScalesTwice(n, total) ==
    LET q == (n * 1000000) \div total
        r == (n * 1000000) % total
    IN [text |-> "%",
        hundredths |-> IF 2 * r > total THEN q + 1
                       ELSE IF 2 * r = total THEN q + (q % 2)
                       ELSE q]

\* f"{n/total:.2%}": the quotient as a percentage with two decimals, kept
\* as a number of hundredths of a percent, rounded half to even
FormatPct(n, total) ==
    LET q == (n * 10000) \div total
        r == (n * 10000) % total
    IN [text |-> "%",
        hundredths |-> IF 2 * r > total THEN q + 1
                       ELSE IF 2 * r = total THEN q + (q % 2)
                       ELSE q]

\* the literal "0.00%"
ZeroPct == [text |-> "%", hundredths |-> 0]

\* lines 178-192: total, count, the ratio of every profile, the printout
MStats ==
    /\ stack # <<>> /\ Head(stack) = "m_stats"
    /\ LET total == Len(parsed) IN
         /\ stats' = [kind |-> "stats", total |-> total, count |-> Counter(parsed)]
         /\ token_profiles' =
              [i \in 1..Len(token_profiles) |->
                 [token_profiles[i] EXCEPT !.txVolume =
                     IF total # 0
                       THEN FormatPct(SymbolCount(parsed, token_profiles[i].symbol), total)
                       ELSE ZeroPct]]
    /\ events' = Append(events, [ev |-> "output", kind |-> "statistics"])
    /\ stack' = <<"m_narrative">>
    /\ sent' = <<>> /\ answers' = <<>>
    /\ UNCHANGED <<outcome, fjVars, gtVars, staked, txs, small_tx_count, sigs, bi,
                   parsed, analysis>>
    /\ UNCHANGED <<fpVars, upstream, stopped>>

\* lines 194-265: the request to the narrative generator; an exception or
\* a text that is not JSON leaves "{}"
MNarrative ==
    /\ stack # <<>> /\ Head(stack) = "m_narrative"
    /\ \E answer \in {"json", "not json", "exception"} :
         analysis' = IF answer = "json" THEN "report" ELSE "{}"
    /\ events' = Append(events, [ev |-> "request", kind |-> "narrative"])
    /\ stack' = <<"m_save">>
    /\ UNCHANGED <<outcome, fjVars, gtVars, dasVars, txs, small_tx_count, sigs, bi,
                   parsed, stats>>
    /\ UNCHANGED <<fpVars, sent, answers, upstream, stopped>>

\* lines 268-273: the report is saved on request and the loop prompts again
MSave ==
    /\ stack # <<>> /\ Head(stack) = "m_save"
    /\ \E save \in {"y", "n"} : TRUE
    /\ stack' = <<"m_prompt">>
    /\ token_profiles' = <<>>
    /\ txs' = <<>> /\ small_tx_count' = 0 /\ sigs' = <<>> /\ bi' = 0
    /\ parsed' = <<>> /\ stats' = [kind |-> "none"] /\ analysis' = ""
    /\ events' = <<>>
    /\ UNCHANGED <<outcome, fjVars, gtVars, staked>>
    /\ UNCHANGED <<fpVars, sent, answers, upstream, stopped>>

\* ------------------------------------------ specification: the whole program
Init ==
    /\ stack = <<"m_prompt">>
    /\ outcome = [kind |-> "none"]
    /\ retries = DefaultRetries /\ attempt = 0 /\ req = [kind |-> "none"]
    /\ fjLog = <<>> /\ fjResult = NoResult
    /\ GtIdle /\ DasIdle /\ MainIdle /\ FpIdle
    /\ events = <<>>
    /\ upstream = [txs |-> MainTxs, assets |-> MainItems]

Next == FetchAttemptOk \/ FetchAttemptFail \/ FetchSleep
        \/ GtRequest \/ GtPage \/ GtClassify \/ GtCheck
        \/ DasCall \/ DasAwait \/ StCall \/ StAwait \/ DasStaked
        \/ MPrompt \/ MTxs \/ MProfiles \/ MBatch \/ MBatchAwait \/ MBatchSleep
        \/ MStats \/ MNarrative \/ MSave

Spec == Init /\ [][Next]_vars

\* --------------- specification: detail resolution, by either of its two loops
\* the loop of main, reached through the whole program, or
\* fetch_parsed_signatures called on its own
InitResolve == Init \/ InitParse

NextResolve == Next \/ FpBatch \/ FpAwait \/ FpSleep

SpecResolve == InitResolve /\ [][NextResolve]_vars

\* ------------------------------------------------ properties of fetch_json
\* the attempts of this call, in order
Attempts == SelectSeq(fjLog, LAMBDA ev : ev.ev = "attempt")
Sleeps == SelectSeq(fjLog, LAMBDA ev : ev.ev = "sleep")
AllFailed == \A i \in 1..Len(Attempts) : ~Attempts[i].ok
FetchEnded == fjResult.kind # "none"

\* C1: when every attempt of fetch_json fails, it never returns a value,
\* it raises after exactly `retries` attempts (never earlier, never later),
\* and the raised error wraps the failure of the last attempt.
C1_RetryExhaustion ==
    AllFailed =>
      /\ fjResult.kind # "return"
      /\ Len(Attempts) <= retries
      /\ (Len(Attempts) = retries) <=> (fjResult.kind = "raise")
      /\ fjResult.kind = "raise" =>
            /\ fjResult.error = RequestFailed(Attempts[retries].res)
            /\ stack = <<>> => outcome = fjResult

\* three attempts failed with different causes and the call raised
C1_Witness ==
    /\ fjResult.kind = "raise"
    /\ retries = 3
    /\ Len(Attempts) = 3
    /\ Attempts[1].res # Attempts[3].res
    /\ Attempts[2].res # Attempts[3].res

\* C2: a call that ended at attempt k made exactly k attempts, k <= retries,
\* the first k-1 failed; when attempt k succeeded its JSON is the value
\* returned; the history is attempt, sleep, attempt, ..., attempt: one
\* 1-second sleep between two consecutive attempts, none after the last.
C2_AttemptsAndDelays ==
    /\ \A i \in 1..Len(fjLog) :
          /\ fjLog[i].ev = (IF i % 2 = 1 THEN "attempt" ELSE "sleep")
          /\ fjLog[i].n = (i - 1) \div 2
          /\ (fjLog[i].ev = "attempt" /\ i < Len(fjLog)) => ~fjLog[i].ok
    /\ FetchEnded =>
          LET k == Len(Attempts) IN
          /\ k \in 1..retries
          /\ Len(fjLog) = 2 * k - 1
          /\ Len(Sleeps) = k - 1
          /\ fjLog[Len(fjLog)].ev = "attempt"
          /\ Attempts[k].ok <=> fjResult.kind = "return"
          /\ Attempts[k].ok => fjResult.value = Attempts[k].res
          /\ (~Attempts[k].ok) => k = retries

\* the third attempt succeeded after two failures and two sleeps
C2_Witness ==
    /\ fjResult.kind = "return"
    /\ Len(Attempts) = 3
    /\ Len(Sleeps) = 2
    /\ fjResult.value = Attempts[3].res

\* ------------------------------------------ properties of get_transactions
Top == IF stack = <<>> THEN "end" ELSE Head(stack)
HasEvent(e, k) == \E i \in 1..Len(events) : events[i] = [ev |-> e, kind |-> k]
Fetched == Flatten(pages)
NormalsOf(ts) == SelectSeq(ts, LAMBDA t : ~IsSmall(t))
SmallsOf(ts) == SelectSeq(ts, LAMBDA t : IsSmall(t))
Prefix(ts, n) == SubSeq(ts, 1, n)
TargetReached == Len(normal_txs) >= limit
GtReturned == stack = <<>> /\ outcome.kind = "return"

\* position, in the fetched transactions, of the limit-th normal one
StopPos ==
    CHOOSE p \in 1..Len(Fetched) :
        ~IsSmall(Fetched[p]) /\ Len(NormalsOf(Prefix(Fetched, p))) = limit

\* number of transactions the for loop has gone through
Observed ==
    IF Len(NormalsOf(Fetched)) >= limit /\ Top # "gt_for" THEN StopPos
    ELSE IF Top = "gt_for" THEN Len(Fetched) - Len(data) + idx - 1
    ELSE Len(Fetched)

\* C3 as stated: on a stop by the limit, small_count counts every
\* sub-threshold transaction of every fetched page, the final page whole.
C3_SmallCountWholeFinalPage ==
    (GtReturned /\ TargetReached) => small_count = Len(SmallsOf(Fetched))

\* C3 amended: on a stop by the limit, small_count counts the sub-threshold
\* transactions of the earlier pages and those of the final page that come
\* before the normal transaction that reached the limit, and none after it.
C3_SmallCountUpToStop ==
    (GtReturned /\ TargetReached) =>
        /\ small_count = Len(SmallsOf(Prefix(Fetched, StopPos)))
        /\ outcome.value[2] = small_count

\* stopped by the limit on a second page that holds a sub-threshold
\* transaction after the one that reached the limit
C3_Witness ==
    /\ GtReturned /\ TargetReached
    /\ Len(pages) = 2
    /\ StopPos < Len(Fetched)
    /\ IsSmall(Fetched[Len(Fetched)])
    /\ small_count > 0

\* C4: at every point each transaction observed so far is counted exactly
\* once, in small_count or in normal_txs: their sum is the number of
\* transactions observed, normal_txs holds no sub-threshold and no repeated
\* transaction; observation covers every fetched transaction on exhaustion
\* and ends at the transaction that reaches the limit on target reached.
C4_CountedExactlyOnce ==
    /\ small_count + Len(normal_txs) = Observed
    /\ small_count = Len(SmallsOf(Prefix(Fetched, Observed)))
    /\ \A i \in 1..Len(normal_txs) :
          /\ ~IsSmall(normal_txs[i])
          /\ \A j \in 1..Len(normal_txs) : normal_txs[i].id = normal_txs[j].id => i = j
    /\ (GtReturned /\ ~TargetReached) => Observed = Len(Fetched)

\* returned on exhaustion after two pages holding both kinds
C4_Witness ==
    /\ GtReturned /\ ~TargetReached
    /\ Len(pages) >= 2
    /\ small_count >= 2
    /\ Len(normal_txs) >= 1
    /\ Len(Fetched) >= 3

\* C5: normal_txs never holds more than limit transactions, and on a stop
\* by the limit the value returned is exactly the first limit normal
\* transactions of the concatenated fetched pages, in upstream order.
C5_AtMostLimitNormals ==
    /\ Len(normal_txs) <= limit
    /\ (GtReturned /\ TargetReached) =>
          /\ Len(normal_txs) = limit
          /\ normal_txs = Prefix(NormalsOf(Fetched), limit)
          /\ outcome.value[1] = normal_txs

\* the limit of 2 was reached on a page that holds a third normal transaction
C5_Witness ==
    /\ GtReturned /\ TargetReached
    /\ limit = 2
    /\ Len(NormalsOf(Fetched)) > limit

\* C6: once the limit is reached no page request is issued any more, and
\* when the first page holds at least limit normal transactions only one
\* page request is ever made.
C6_NoFetchAfterLimit ==
    /\ []((Len(pages) >= 1 /\ Len(NormalsOf(pages[1])) >= limit) => Len(cursors) = 1)
    /\ [][TargetReached => (cursors' = cursors /\ stack' = <<>>)]_vars

\* returned after one page request, the first page holding limit normals
C6_Witness ==
    /\ GtReturned
    /\ Len(pages) = 1
    /\ Len(NormalsOf(pages[1])) >= limit
    /\ Truthy(Get(pages[1][Len(pages[1])], "signature", None))
    /\ Len(cursors) = 1

\* the page fetched last holds transactions and its last one has no
\* signature: the key is absent or the string is empty
LastPage == pages[Len(pages)]
LastUnsigned ==
    /\ pages # <<>>
    /\ LastPage # <<>>
    /\ LET last == LastPage[Len(LastPage)]
       IN "signature" \notin DOMAIN last \/ last.signature = ""

\* C12: if the last transaction of a fetched page carries no signature
\* (absent or empty), get_transactions issues no further page fetch and
\* returns the normal transactions and the small count accumulated so far,
\* that page included.
C12_StopsOnUnsignedLast ==
    /\ [](LastUnsigned =>
            /\ Len(cursors) = Len(pages)
            /\ Top \in {"gt_for", "gt_check", "end"}
            /\ Top = "end" =>
                  /\ GtReturned
                  /\ outcome.value = <<normal_txs, small_count>>
                  /\ normal_txs = NormalsOf(Prefix(Fetched, Observed))
                  /\ small_count = Len(SmallsOf(Prefix(Fetched, Observed)))
                  /\ ~TargetReached => Observed = Len(Fetched))
    /\ [][(LastUnsigned /\ Top = "gt_check") =>
            /\ stack' = <<>>
            /\ outcome' = [kind |-> "return", value |-> <<normal_txs, small_count>>]
            /\ cursors' = cursors
            /\ before' = before]_vars

\* below the limit, a second page ended with a transaction without
\* signature while the history held more, and the call returned both pages
C12_Witness ==
    /\ GtReturned /\ ~TargetReached
    /\ LastUnsigned
    /\ Len(pages) = 2
    /\ Len(Fetched) < upstream.txs
    /\ Len(normal_txs) >= 1
    /\ small_count >= 1
    /\ small_count + Len(normal_txs) = Len(Fetched)

\* C17: the first page request of get_transactions carries no cursor, and
\* every later page request carries as `before` the signature of the last
\* transaction of the immediately preceding page; the cursor changes only
\* after a page has been fully classified without reaching the limit.
C17_CursorFollowsLastSignature ==
    /\ [](/\ Len(cursors) >= 1 => cursors[1] = None
          /\ Len(cursors) \in {Len(pages), Len(pages) + 1}
          /\ \A k \in 2..Len(cursors) :
                LET prev == pages[k - 1] IN
                /\ prev # <<>>
                /\ "signature" \in DOMAIN prev[Len(prev)]
                /\ prev[Len(prev)].signature # ""
                /\ cursors[k] = prev[Len(prev)].signature
          /\ Top = "fj_try" => req.before = cursors[Len(cursors)])
    /\ [][before' # before =>
            /\ Top = "gt_check"
            /\ ~TargetReached
            /\ idx = Len(data) + 1
            /\ small_count + Len(normal_txs) = Len(Fetched)
            /\ before' = Get(LastPage[Len(LastPage)], "signature", None)
            /\ before' \notin {None, ""}]_vars

\* the third request carries the signature of the only transaction of the
\* second page, the second one that of the last of the two of the first
C17_Witness ==
    /\ Len(cursors) = 3
    /\ Len(pages[1]) = 2 /\ Len(pages[2]) = 1
    /\ cursors = <<None, SigOf[2], SigOf[3]>>

\* C18: if every page fetch succeeds and the upstream serves a finite
\* history and honours the cursor, get_transactions eventually returns
\* after finitely many page fetches, stopping on an empty page, on reaching
\* the limit, or on a last transaction without signature; and if a page
\* fetch fails on all its attempts, get_transactions ends with that
\* failure.
C18_RunsToCompletion ==
    /\ <>(stack = <<>>)
    /\ [](stack = <<>> =>
            \/ /\ outcome.kind = "return"
               /\ ~HasEvent("raise", "txpage")
               /\ Len(cursors) = Len(pages)
               /\ Len(pages) <= upstream.txs + 1
               /\ LastPage = <<>> \/ TargetReached \/ LastUnsigned
            \/ /\ outcome.kind = "raise"
               /\ events[Len(events)] = [ev |-> "raise", kind |-> "txpage"]
               /\ fjResult.kind = "raise"
               /\ Len(Attempts) = retries /\ AllFailed
               /\ outcome.error = RequestFailed(Attempts[retries].res)
               /\ Len(cursors) = Len(pages) + 1)
    /\ [](HasEvent("raise", "txpage") => (Top \in {"gt_await", "end"} /\ outcome.kind # "return"))

\* the call returned on the empty page that followed the page holding the
\* whole history
C18_Witness ==
    /\ GtReturned /\ ~TargetReached
    /\ Len(pages) = 2
    /\ pages[1] # <<>> /\ pages[2] = <<>>
    /\ Len(Fetched) = upstream.txs
    /\ upstream.txs = LiveTxs

RECURSIVE AbsTotal(_, _)
\* |amount| of the first n native transfers of a transaction, added up
AbsTotal(tx, n) ==
    IF n = 0 THEN 0
    ELSE LET a == tx.nativeTransfers[n].amount
         IN AbsTotal(tx, n - 1) + (IF a >= 0 THEN a ELSE 0 - a)

\* the amount get_transactions is to compare: 0 without native transfers
Moved(tx) ==
    IF "nativeTransfers" \in DOMAIN tx THEN AbsTotal(tx, Len(tx.nativeTransfers)) ELSE 0

\* C19: get_transactions classifies a transaction as small exactly when the
\* sum of the absolute values of its native transfer amounts is strictly
\* below 100,000,000 raw units, and as normal otherwise: a transaction
\* summing to exactly the threshold is normal, one without native transfers
\* is small, and transfers of opposite sign add up rather than cancel.
C19_SmallBelowThreshold ==
    /\ [][Top = "gt_for" =>
            IF Moved(data[idx]) < 100000000
              THEN small_count' = small_count + 1 /\ normal_txs' = normal_txs
              ELSE small_count' = small_count /\ normal_txs' = Append(normal_txs, data[idx])]_vars
    /\ [][Top # "gt_for" => (small_count' = small_count /\ normal_txs' = normal_txs)]_vars
    /\ [](\A i \in 1..Len(normal_txs) : Moved(normal_txs[i]) >= 100000000)
    /\ [](small_count =
              Cardinality({ i \in 1..Observed : Moved(Fetched[i]) < 100000000 }))

\* a transaction without native transfers and one just below the threshold
\* were counted small, one whose two transfers of opposite sign add up to
\* exactly the threshold was kept as normal
C19_Witness ==
    /\ Observed = 3 /\ small_count = 2 /\ Len(normal_txs) = 1
    /\ Len(normal_txs[1].nativeTransfers) = 2
    /\ Moved(normal_txs[1]) = 100000000
    /\ normal_txs[1].nativeTransfers[1].amount = 0 - normal_txs[1].nativeTransfers[2].amount
    /\ \E i \in 1..3 : "nativeTransfers" \notin DOMAIN Fetched[i]
    /\ \E i \in 1..3 : Moved(Fetched[i]) = 99999999

\* ---------------------------- properties of the asset-profile builder
DasReturned == stack = <<>> /\ outcome.kind = "return"
StakeFailed == HasEvent("raise", "stake") \/ HasEvent("warning", "stake")

\* C9: when the staking request fails on every attempt, or its answer
\* cannot be summed, get_stake_accounts hands 0.0 to its caller without
\* raising and leaves the entries built so far alone, and
\* fetch_token_profiles_das then returns exactly those entries (the token
\* entries and the SOL entry), no stakedSOL entry appended; only a failed
\* asset request makes fetch_token_profiles_das raise.
C9_StakingFailureAbsorbed ==
    /\ [](StakeFailed => (staked = Zero /\ ~HasEvent("raise", "assets")))
    /\ [](outcome.kind = "raise" => (HasEvent("raise", "assets") /\ ~StakeFailed))
    /\ [][(Top = "st_await" /\ (fjResult.kind = "raise" \/ ~Summable(fjResult.value))) =>
            (staked' = Zero /\ stack' = Tail(stack) /\ outcome' = outcome
             /\ token_profiles' = token_profiles
             /\ HasEvent("warning", "stake")')]_vars
    /\ [][(Top = "das_staked" /\ StakeFailed) =>
            (stack' = <<>> /\ outcome' = [kind |-> "return", value |-> token_profiles]
             /\ token_profiles' = token_profiles
             /\ \A i \in 1..Len(token_profiles) :
                   token_profiles[i].symbol # "stakedSOL")]_vars

\* the staking request failed three times and the list returned holds a
\* token entry and the SOL entry
C9_Witness ==
    /\ DasReturned
    /\ HasEvent("raise", "stake")
    /\ Len(outcome.value) = 2
    /\ outcome.value[1].symbol = "USDC"
    /\ outcome.value[2].symbol = "SOL"

\* C10: the list returned by fetch_token_profiles_das holds no two entries
\* with the same symbol, whatever the upstream answered.
C10_UniqueSymbols ==
    DasReturned =>
        \A i, j \in 1..Len(outcome.value) :
            outcome.value[i].symbol = outcome.value[j].symbol => i = j

\* the asset has a symbol, and it is not the placeholder "Unknown"
KnownSymbol(a) ==
    /\ "token_info" \in DOMAIN a
    /\ "symbol" \in DOMAIN a.token_info
    /\ a.token_info.symbol # "Unknown"

\* raw balance over 10^decimals
NormalizedBalance(a) ==
    Ratio(Get(a.token_info, "balance", 0), Pow10(Get(a.token_info, "decimals", 0)))

\* the upstream items that are listed, in upstream order
ListedItems(items) ==
    SelectSeq(items, LAMBDA a : KnownSymbol(a) /\ NormalizedBalance(a).num # 0)

ListedProfiles(items) ==
    [i \in 1..Len(ListedItems(items)) |->
        Profile(ListedItems(items)[i].token_info.symbol,
                NormalizedBalance(ListedItems(items)[i]))]

\* the native balance of an answer, in lamports (0 when it is not given)
NativeLamports(doc) ==
    LET res == Get(doc, "result", EmptyDict)
    IN IF "nativeBalance" \in DOMAIN res /\ "lamports" \in DOMAIN res.nativeBalance
         THEN res.nativeBalance.lamports ELSE 0

ItemsOf(doc) == Get(Get(doc, "result", EmptyDict), "items", <<>>)

\* C11: the list returned by fetch_token_profiles_das is exactly the
\* upstream items with a known symbol and a non-zero normalized balance, in
\* upstream order, then one SOL entry if and only if the native balance is
\* positive, then one stakedSOL entry if and only if the staking balance is
\* greater than 0; no entry of the list has balance 0.
C11_ProfilesExactly ==
    /\ [][(Top = "das_await" /\ fjResult.kind = "return") =>
            token_profiles' =
                ListedProfiles(ItemsOf(fjResult.value))
                \o (IF NativeLamports(fjResult.value) > 0
                      THEN <<Profile("SOL", Ratio(NativeLamports(fjResult.value),
                                                  LAMPORTS_PER_SOL))>>
                      ELSE <<>>)]_vars
    /\ [][Top \notin {"das_await", "das_staked"} => token_profiles' = token_profiles]_vars
    /\ [][Top = "das_staked" =>
            /\ stack' = <<>>
            /\ outcome'.kind = "return"
            /\ outcome'.value =
                 token_profiles \o (IF staked.num > 0
                                      THEN <<Profile("stakedSOL", staked)>> ELSE <<>>)]_vars
    /\ [](\A i \in 1..Len(token_profiles) : token_profiles[i].balance.num # 0)

\* two tokens, the native balance and a staking balance were all listed
C11_Witness ==
    /\ DasReturned
    /\ Len(outcome.value) = 4
    /\ outcome.value[1].symbol = "USDC"
    /\ outcome.value[2].symbol = "SOL"
    /\ outcome.value[3].symbol = "SOL"
    /\ outcome.value[3].balance = Ratio(1500000000, LAMPORTS_PER_SOL)
    /\ outcome.value[4].symbol = "stakedSOL"

\* ------------------------------------------ properties of detail resolution
\* fetch_parsed_signatures is the function running (or the one that ended)
InFp == batch_size > 0

\* main is in its batch loop, or has just left it
InMainLoop ==
    /\ stack # <<>>
    /\ stack[Len(stack)] \in {"m_batch", "m_batch_await", "m_batch_sleep", "m_stats"}

\* signatures per batch, records gathered, end of the loop, for the loop at hand
PerBatch == IF InFp THEN batch_size ELSE BatchSize
Gathered == IF InFp THEN results ELSE parsed
LoopOver == IF InFp THEN stack = <<>> /\ outcome.kind = "return" ELSE Top = "m_stats"
Ceil(n, b) == (n + b - 1) \div b

\* C13: for every list of signatures and every batch_size >= 1, detail
\* resolution issues ceil(n / batch_size) requests, the i-th carrying the
\* i-th consecutive slice of at most batch_size signatures in their
\* original order, every signature sent exactly once, and the list gathered
\* (returned by fetch_parsed_signatures, parsed in main) is the
\* concatenation of the batch answers in request order.
C13_BatchesCoverInOrder ==
    (InFp \/ InMainLoop) =>
        LET n == Len(sigs)
            b == PerBatch
        IN
        /\ Len(sent) <= Ceil(n, b)
        /\ \A k \in 1..Len(sent) :
              /\ Len(sent[k]) = (IF k * b <= n THEN b ELSE n - (k - 1) * b)
              /\ Len(sent[k]) \in 1..b
              /\ \A j \in 1..Len(sent[k]) : sent[k][j] = sigs[(k - 1) * b + j]
        /\ Flatten(sent) = Prefix(sigs, Len(Flatten(sent)))
        /\ Len(answers) \in {Len(sent) - 1, Len(sent)}
        /\ Gathered = Flatten(answers)
        /\ LoopOver =>
              /\ Len(sent) = Ceil(n, b)
              /\ Flatten(sent) = sigs
              /\ Len(answers) = Len(sent)
              /\ InFp => outcome.value = Flatten(answers)

\* fetch_parsed_signatures returned after two batches, of two and of one
\* signature, the first signature occurring again in the second batch
C13_Witness ==
    /\ InFp /\ LoopOver
    /\ Len(sigs) = 3 /\ batch_size = 2
    /\ sigs[1] = sigs[3] /\ sigs[1] # sigs[2]
    /\ Len(sent) = 2
    /\ Len(answers[1]) = 2 /\ Len(answers[2]) = 1
    /\ Len(outcome.value) = 3

\* the batch requests and the pauses of the run, in order
BatchEvents ==
    SelectSeq(events, LAMBDA e : e = [ev |-> "request", kind |-> "parse"]
                                 \/ e = [ev |-> "pause", kind |-> "batch"])

\* C14: between any two consecutive batch requests of detail resolution
\* (in fetch_parsed_signatures and in the batch loop of main) a 1-second
\* pause takes place: a batch request is issued only when the pause that
\* follows the previous batch has completed.
C14_PauseBetweenBatches ==
    /\ \A i \in 1..Len(BatchEvents) :
          BatchEvents[i].ev = (IF i % 2 = 1 THEN "request" ELSE "pause")
    /\ \A i, j \in 1..Len(events) :
          (i < j /\ events[i] = [ev |-> "request", kind |-> "parse"]
                 /\ events[j] = [ev |-> "request", kind |-> "parse"]) =>
              \E k \in (i + 1)..(j - 1) : events[k] = [ev |-> "pause", kind |-> "batch"]
    /\ Len(BatchEvents) \in {2 * Len(sent) - 1, 2 * Len(sent)} \/ ~(InFp \/ InMainLoop)

\* the loop of main has made two batch requests and the pause after each
C14_Witness ==
    /\ InMainLoop /\ Top = "m_stats"
    /\ Len(sent) = 2
    /\ Len(BatchEvents) = 4

\* ------------------------------------------------------ properties of main
\* the stage an event belongs to: 1 pagination, 2 asset profiles,
\* 3 detail resolution, 4 aggregation, 5 narrative
StageOfEvent(e) ==
    CASE e.kind = "txpage" -> 1
      [] e.kind \in {"assets", "stake"} -> 2
      [] e.kind \in {"parse", "batch"} -> 3
      [] e.kind = "statistics" -> 4
      [] e.kind = "narrative" -> 5

\* the stage the program is in: the frame of main at the bottom of the stack
StageOfStack ==
    LET frame == stack[Len(stack)] IN
    CASE frame = "m_txs" -> 1
      [] frame = "m_profiles" -> 2
      [] frame \in {"m_batch", "m_batch_await", "m_batch_sleep"} -> 3
      [] frame = "m_stats" -> 4
      [] frame = "m_narrative" -> 5
      [] frame = "m_save" -> 6
      [] OTHER -> 0

AcquisitionFailed == HasEvent("raise", "txpage") \/ HasEvent("raise", "assets")
Terminated == stack = <<>> /\ outcome.kind = "raise"

RECURSIVE SumOver(_, _)
\* the sum of f over the keys S
SumOver(f, S) ==
    IF S = {} THEN 0
    ELSE LET x == CHOOSE y \in S : TRUE IN f[x] + SumOver(f, S \ {x})

\* the parsed records without a type
Untyped(recs) == { i \in 1..Len(recs) : "type" \notin DOMAIN recs[i] }

\* C15: for every parsed set (empty or not, with or without records that
\* lack a type), the counts of the type distribution sum to totalParsed, a
\* record without a type being counted once under "UNKNOWN" and every
\* record being counted under exactly one type.
C15_TypeCountsSumToTotal ==
    stats.kind = "stats" =>
        /\ stats.total = Len(parsed)
        /\ SumOver(stats.count, DOMAIN stats.count) = stats.total
        /\ \A t \in DOMAIN stats.count : stats.count[t] >= 1
        /\ \A i \in 1..Len(parsed) :
              IF i \in Untyped(parsed) THEN "UNKNOWN" \in DOMAIN stats.count
              ELSE parsed[i].type \in DOMAIN stats.count
        /\ Untyped(parsed) # {} =>
              stats.count["UNKNOWN"] =
                  Cardinality(Untyped(parsed))
                  + Cardinality({ i \in 1..Len(parsed) \ Untyped(parsed) :
                                     parsed[i].type = "UNKNOWN" })

\* two records were parsed, one of them without a type
C15_Witness ==
    /\ stats.kind = "stats"
    /\ stats.total = 2
    /\ Cardinality(Untyped(parsed)) = 1
    /\ Cardinality(DOMAIN stats.count) = 2

\* the parsed records whose tokenSymbol is sym
WithSymbol(recs, sym) ==
    { i \in 1..Len(recs) : "tokenSymbol" \in DOMAIN recs[i] /\ recs[i].tokenSymbol = sym }

\* C16: for every profile and every parsed set, the number n of parsed
\* records whose tokenSymbol equals the profile's symbol satisfies
\* 0 <= n <= totalParsed, so the ratio set on the profile lies in
\* [0%, 100%] (it is n / totalParsed to two decimals of a percent); when
\* totalParsed is 0 every profile's ratio is the literal "0.00%" and no
\* division is performed.
C16_RatioWithinBounds ==
    /\ stats.kind = "none" =>
          \A i \in 1..Len(token_profiles) : token_profiles[i].txVolume = EmptyStr
    /\ stats.kind = "stats" =>
          \A i \in 1..Len(token_profiles) :
              LET n == Cardinality(WithSymbol(parsed, token_profiles[i].symbol))
                  ratio == token_profiles[i].txVolume
              IN
              /\ 0 <= n /\ n <= stats.total
              /\ ratio.text = "%"
              /\ ratio.hundredths \in 0..10000
              /\ stats.total = 0 => ratio = [text |-> "%", hundredths |-> 0]
              /\ stats.total > 0 =>
                    /\ 2 * (ratio.hundredths * stats.total - n * 10000) <= stats.total
                    /\ 2 * (n * 10000 - ratio.hundredths * stats.total) <= stats.total
                    /\ n = stats.total => ratio.hundredths = 10000
                    /\ n = 0 => ratio.hundredths = 0

\* of two parsed records one names the symbol of a profile and none names
\* that of another: ratios of 50.00% and of 0.00%
C16_Witness ==
    /\ stats.kind = "stats"
    /\ stats.total = 2
    /\ \E i \in 1..Len(token_profiles) : token_profiles[i].txVolume.hundredths = 5000
    /\ \E i \in 1..Len(token_profiles) : token_profiles[i].txVolume.hundredths = 0

\* C20: when pagination stops because the last transaction of a page has
\* no signature, main treats this as exhaustion and goes on to build the
\* asset profiles, resolve details and compute the statistics, whether that
\* last transaction was classified small or normal: the analysis of the
\* address ends on nothing but a request that failed on all its attempts.
C20_UnsignedLastTolerated ==
    (stopped = "unsigned" /\ Terminated) =>
        /\ events # <<>>
        /\ events[Len(events)].ev = "raise"
        /\ outcome.error = RequestFailed(outcome.error.cause)

\* C7: after a page fetch or the asset fetch of an address has failed on
\* all its attempts, main reports it and prompts for the next address: the
\* process is not ended by the failure.
C7_ContinuesAfterFailure == AcquisitionFailed => ~Terminated

\* C8: the events of one analysis come in stage order (pagination, asset
\* profiles, detail resolution, aggregation, narrative), a stage being
\* entered only when the earlier ones have run; and once a page fetch or
\* the asset fetch has failed on all its attempts nothing follows it: no
\* request, no statistics, no narrative request.
C8_StagesInOrderNoPartialResults ==
    /\ \A i \in 1..(Len(events) - 1) :
          StageOfEvent(events[i]) <= StageOfEvent(events[i + 1])
    /\ stack # <<>> =>
          /\ \A i \in 1..Len(events) : StageOfEvent(events[i]) <= StageOfStack
          /\ StageOfStack >= 2 => HasEvent("request", "txpage")
          /\ StageOfStack >= 3 =>
                HasEvent("request", "assets") /\ HasEvent("request", "stake")
          /\ StageOfStack >= 5 => HasEvent("output", "statistics")
          /\ StageOfStack >= 6 => HasEvent("request", "narrative")
          /\ StageOfStack < 5 => stats.kind = "none"
    /\ \A i \in 1..Len(events) :
          (events[i].ev = "raise" /\ events[i].kind \in {"txpage", "assets"}) =>
              /\ i = Len(events)
              /\ stack = <<>> \/ Head(stack) \in {"gt_await", "das_await"}
              /\ stats.kind = "none"
              /\ analysis = ""

\* the second page fetch failed after a first page had been classified
C8_Witness ==
    /\ Terminated
    /\ events = << [ev |-> "request", kind |-> "txpage"],
                   [ev |-> "request", kind |-> "txpage"],
                   [ev |-> "raise", kind |-> "txpage"] >>

====
